---- MODULE Spec2Model ----
(***************************************************************************)
(* Model of the two knapsack solvers of the repository:                    *)
(*   optimized.py  : optimized_investment (1-D dynamic programming)        *)
(*   bruteforce.py : process_chunk / async_brute_force_investment          *)
(* One behaviour fixes a catalog and a budget, runs the DP solve step by    *)
(* step (one inner-loop iteration per step), then calls the chunked brute  *)
(* force on the same input with some worker count (one process_chunk call  *)
(* per step, completing in any order, then the in-order reduction), so the *)
(* two results can be compared.  num_processes is 0 until that call.       *)
(* Profits are floats in the source; they are modelled as integers (the    *)
(* claims concern sums and comparisons, not rounding).                     *)
(***************************************************************************)
EXTENDS Integers, Sequences, FiniteSets, TLC

VARIABLES actions, budget, num_processes,
          pc, k, pos, dp, included, dp_result,
          tasks, pending, results, r,
          max_profit, best_combination, best_cost,
          total_combinations_processed, bf_result

vars == <<actions, budget, num_processes, pc, k, pos, dp, included, dp_result,
          tasks, pending, results, r, max_profit, best_combination, best_cost,
          total_combinations_processed, bf_result>>

\* ------------------------------------------------------------------ bounds
MaxN == 2
MaxCost == 2
MaxProfit == 2
MaxBudget == 2
MaxK == 3

\* Names of the options, by position in the catalog (unique within a catalog).
NameOf(j) == <<"A", "B", "C", "D", "E">>[j]

Max(a, b) == IF a >= b THEN a ELSE b

RECURSIVE Pow2(_)
Pow2(n) == IF n <= 0 THEN 1 ELSE 2 * Pow2(n - 1)

\* ------------------------------------------------------- Python primitives
\* A Python list is a sequence; list index i is sequence index i + 1, and a
\* negative index counts from the end.  An index outside -len..len-1 raises
\* IndexError.
PyIndexOK(lst, i) == (-Len(lst) <= i) /\ (i < Len(lst))
PyPos(lst, i) == IF i >= 0 THEN i + 1 ELSE Len(lst) + i + 1
PyGet(lst, i) == lst[PyPos(lst, i)]
PySet(lst, i, v) == [lst EXCEPT ![PyPos(lst, i)] = v]

\* [x] * n : n copies of x, the empty list when n <= 0.
PyRepeat(x, n) == [i \in 1..Max(n, 0) |-> x]

\* range(start, stop, -1) as the sequence start, start-1, ..., stop+1.
PyRangeDown(start, stop) == [i \in 1..Max(start - stop, 0) |-> start - (i - 1)]

\* --------------------------------------------------------- optimized.py
\* for w in range(budget, cost - 1, -1)
InnerRangeAsc(b, cost) == [i \in 1..Max(b - cost + 1, 0) |-> cost + (i - 1)]
InnerRangeShort(b, cost) == PyRangeDown(b - 1, cost - 1)
InnerRange(b, cost) == PyRangeDown(b, cost - 1)

\* if profit_with > dp[w]
DPImprovesGE(profit_with, cur) == profit_with >= cur
DPImproves(profit_with, cur) == profit_with > cur

\* sum(a["cost"] for a in actions if a["name"] in selected_names)
RECURSIVE CostOfNamed(_, _, _)
CostOfNamed(acts, names, j) ==
    IF j > Len(acts) THEN 0
    ELSE (IF \E x \in 1..Len(names) : names[x] = acts[j].name
          THEN acts[j].cost ELSE 0) + CostOfNamed(acts, names, j + 1)

TotalCost(acts, names) == CostOfNamed(acts, names, 1)

Error == [status |-> "error", names |-> <<>>, cost |-> 0, profit |-> 0]
Solution(names, cost, profit) ==
    [status |-> "ok", names |-> names, cost |-> cost, profit |-> profit]
None == [status |-> "none", names |-> <<>>, cost |-> 0, profit |-> 0]

N == Len(actions)

bfVars == <<tasks, pending, results, r, max_profit, best_combination, best_cost,
            total_combinations_processed, bf_result>>
inputVars == <<actions, budget, num_processes>>

\* One iteration of the inner loop (lines 64-68) for option k at w.
DPStep ==
    /\ pc = "dp"
    /\ k <= N
    /\ pos <= Len(InnerRange(budget, actions[k].cost))
    /\ LET cost == actions[k].cost
           profit == actions[k].profit
           name == actions[k].name
           w == InnerRange(budget, cost)[pos]
       IN IF ~PyIndexOK(dp, w - cost) \/ ~PyIndexOK(dp, w)
          THEN \* IndexError leaves the function
               /\ dp_result' = Error
               /\ pc' = "bf_start"
               /\ UNCHANGED <<dp, included, pos>>
          ELSE LET profit_with == PyGet(dp, w - cost) + profit
               IN /\ IF DPImproves(profit_with, PyGet(dp, w))
                     THEN /\ dp' = PySet(dp, w, profit_with)
                          /\ included' = PySet(included, w,
                                               Append(PyGet(included, w - cost), name))
                     ELSE UNCHANGED <<dp, included>>
                  /\ pos' = pos + 1
                  /\ UNCHANGED <<dp_result, pc>>
    /\ UNCHANGED <<k, inputVars, bfVars>>

\* The inner range of option k is exhausted: the outer loop takes the next option.
DPNextAction ==
    /\ pc = "dp"
    /\ k <= N
    /\ pos > Len(InnerRange(budget, actions[k].cost))
    /\ k' = k + 1
    /\ pos' = 1
    /\ UNCHANGED <<pc, dp, included, dp_result, inputVars, bfVars>>

\* Lines 70-75: the result for the full budget.
DPReturn ==
    /\ pc = "dp"
    /\ k > N
    /\ dp_result' = IF ~PyIndexOK(included, budget)
                    THEN Error
                    ELSE LET selected_names == PyGet(included, budget)
                         IN Solution(selected_names,
                                     TotalCost(actions, selected_names),
                                     PyGet(dp, budget))
    /\ pc' = "bf_start"
    /\ UNCHANGED <<k, pos, dp, included, inputVars, bfVars>>

\* --------------------------------------------------------- bruteforce.py
\* i & (1 << j)
BitSetShifted(i, j) == ((i \div Pow2(j + 1)) % 2) = 1
BitSet(i, j) == ((i \div Pow2(j)) % 2) = 1

\* Lines 35-43: the subset of mask i, built for j = 0 .. n-1 in that order.
RECURSIVE MaskEval(_, _, _, _)
MaskEval(acts, i, j, acc) ==
    IF j >= Len(acts) THEN acc
    ELSE MaskEval(acts, i, j + 1,
                  IF BitSet(i, j)
                  THEN [names |-> Append(acc.names, acts[j + 1].name),
                        cost |-> acc.cost + acts[j + 1].cost,
                        profit |-> acc.profit + acts[j + 1].profit]
                  ELSE acc)

Combination(acts, i) == MaskEval(acts, i, 0, [names |-> <<>>, cost |-> 0, profit |-> 0])

\* Line 45: if current_cost <= budget and current_profit > max_profit
ChunkBetterGE(current_cost, current_profit, b, best) ==
    current_cost <= b /\ current_profit >= best
ChunkBetterNoBudget(current_cost, current_profit, b, best) ==
    current_profit > best
ChunkBetter(current_cost, current_profit, b, best) ==
    current_cost <= b /\ current_profit > best

\* Lines 34-50: for i in range(start, end), carrying the running best.
RECURSIVE ChunkLoop(_, _, _, _, _)
ChunkLoop(acts, i, end, b, st) ==
    IF i >= end THEN st
    ELSE LET cur == Combination(acts, i)
             upd == IF ChunkBetter(cur.cost, cur.profit, b, st.max_profit)
                    THEN [st EXCEPT !.max_profit = cur.profit,
                                    !.best_combination = cur.names,
                                    !.best_cost = cur.cost]
                    ELSE st
         IN ChunkLoop(acts, i + 1, end, b,
                      [upd EXCEPT !.combinations_processed = @ + 1])

\* Lines 27-52.
process_chunk(acts, start, end, b) ==
    ChunkLoop(acts, start, end, b,
              [best_combination |-> <<>>, best_cost |-> 0, max_profit |-> 0,
               combinations_processed |-> 0])

\* Lines 57-58, 64-65.
total_combinations == Pow2(N)
chunk_size_of(num) == total_combinations \div num
ChunkStart(i, size) == i * size
ChunkEndNoRemainder(i, size, num, total) == (i + 1) * size
ChunkEnd(i, size, num, total) == IF i < num - 1 THEN (i + 1) * size ELSE total

dpVars == <<k, pos, dp, included, dp_result>>
reduceVars == <<max_profit, best_combination, best_cost, total_combinations_processed>>

\* Lines 55-68: async_brute_force_investment is called with num_processes = num
\* on the same catalog and budget; one task per chunk is submitted to the pool.
BFSubmit(num) ==
    /\ pc = "bf_start"
    /\ num_processes' = num
    /\ tasks' = [i \in 0..(num - 1) |->
                   [start |-> ChunkStart(i, chunk_size_of(num)),
                    end |-> ChunkEnd(i, chunk_size_of(num), num, total_combinations)]]
    /\ pending' = 0..(num - 1)
    /\ pc' = "bf_run"
    /\ UNCHANGED <<actions, budget, results, r, reduceVars, bf_result, dpVars>>

\* A worker process runs process_chunk on its task; tasks complete in any order
\* and each result is stored at the position of its task (asyncio.gather).
ChunkRun(i) ==
    /\ pc = "bf_run"
    /\ i \in pending
    /\ results' = [j \in (DOMAIN results) \cup {i} |->
                     IF j = i
                     THEN process_chunk(actions, tasks[i].start, tasks[i].end, budget)
                     ELSE results[j]]
    /\ pending' = pending \ {i}
    /\ UNCHANGED <<pc, tasks, r, reduceVars, bf_result, inputVars, dpVars>>

\* Line 70 returns once every task is done; lines 72-75 initialise the reduction.
Gather ==
    /\ pc = "bf_run"
    /\ pending = {}
    /\ pc' = "bf_reduce"
    /\ r' = 0
    /\ max_profit' = 0
    /\ best_combination' = <<>>
    /\ best_cost' = 0
    /\ total_combinations_processed' = 0
    /\ UNCHANGED <<tasks, pending, results, bf_result, inputVars, dpVars>>

\* Line 78: if profit > max_profit
ReduceBetterGE(profit, best) == profit >= best
ReduceBetterLT(profit, best) == profit < best
ReduceBetter(profit, best) == profit > best

\* Lines 77-82: one iteration of the reduction, in task order.
ReduceStep ==
    /\ pc = "bf_reduce"
    /\ r < num_processes
    /\ IF ReduceBetter(results[r].max_profit, max_profit)
       THEN /\ max_profit' = results[r].max_profit
            /\ best_combination' = results[r].best_combination
            /\ best_cost' = results[r].best_cost
       ELSE UNCHANGED <<max_profit, best_combination, best_cost>>
    /\ total_combinations_processed' =
           total_combinations_processed + results[r].combinations_processed
    /\ r' = r + 1
    /\ UNCHANGED <<pc, tasks, pending, results, bf_result, inputVars, dpVars>>

\* Lines 86-88: the assertion, then the return.
BFReturn ==
    /\ pc = "bf_reduce"
    /\ r = num_processes
    /\ bf_result' = IF total_combinations_processed = total_combinations
                    THEN Solution(best_combination, best_cost, max_profit)
                    ELSE [Error EXCEPT !.status = "assertion"]
    /\ pc' = "done"
    /\ UNCHANGED <<tasks, pending, results, r, reduceVars, inputVars, dpVars>>

\* ------------------------------------------------------------ behaviours
Catalogs(costs, profits) ==
    UNION {[1..n -> costs \X profits] : n \in 0..MaxN}

MkActions(f) ==
    [j \in 1..Len(f) |-> [name |-> NameOf(j), cost |-> f[j][1], profit |-> f[j][2]]]

InitWith(costs, profits, budgets) ==
    /\ \E f \in Catalogs(costs, profits) : actions = MkActions(f)
    /\ budget \in budgets
    /\ num_processes = 0
    /\ pc = "dp"
    /\ k = 1
    /\ pos = 1
    /\ dp = PyRepeat(0, budget + 1)
    /\ included = PyRepeat(<<>>, budget + 1)
    /\ dp_result = None
    /\ tasks = <<>>
    /\ pending = {}
    /\ results = <<>>
    /\ r = 0
    /\ max_profit = 0
    /\ best_combination = <<>>
    /\ best_cost = 0
    /\ total_combinations_processed = 0
    /\ bf_result = None

\* Inputs allowed by the data model: cost >= 0, profit >= 0, budget >= 0.
Init == InitWith(0..MaxCost, 0..MaxProfit, 0..MaxBudget)

\* Inputs that may also break the preconditions.
InitAny == InitWith(-1..MaxCost, -1..MaxProfit, -1..MaxBudget)

Next ==
    \/ DPStep
    \/ DPNextAction
    \/ DPReturn
    \/ \E num \in 1..MaxK : BFSubmit(num)
    \/ \E i \in 0..(MaxK - 1) : ChunkRun(i)
    \/ Gather
    \/ ReduceStep
    \/ BFReturn

Spec == Init /\ [][Next]_vars
SpecAny == InitAny /\ [][Next]_vars

TypeOK ==
    /\ pc \in {"dp", "bf_start", "bf_run", "bf_reduce", "done"}
    /\ k \in 1..(N + 1)
    /\ Len(dp) = Len(included)

\* -------------------------------------------------- reference definitions
\* The knapsack problem itself, stated over sets of positions of the catalog.
RECURSIVE SumFrom(_, _, _)
SumFrom(S, field, j) ==
    IF j > N THEN 0
    ELSE (IF j \in S THEN actions[j][field] ELSE 0) + SumFrom(S, field, j + 1)

SubsetCost(S) == SumFrom(S, "cost", 1)
SubsetProfit(S) == SumFrom(S, "profit", 1)

Feasible(n, w) == {S \in SUBSET (1..n) : SubsetCost(S) <= w}
OptProfit(n, w) ==
    LET profits == {SubsetProfit(S) : S \in Feasible(n, w)}
    IN CHOOSE p \in profits : \A q \in profits : q <= p

\* The positions named by a list of names, and whether a list repeats a name.
PositionsOf(names) == {j \in 1..N : \E x \in 1..Len(names) : names[x] = actions[j].name}
NoRepeat(names) == \A x, y \in 1..Len(names) : names[x] = names[y] => x = y
KnownNames(names) == \A x \in 1..Len(names) : \E j \in 1..N : actions[j].name = names[x]
IsSelection(names) == NoRepeat(names) /\ KnownNames(names)

\* The subset a mask stands for, and its names in catalog order.
MaskSet(m) == {j \in 1..N : (m \div Pow2(j - 1)) % 2 = 1}
RECURSIVE NamesFrom(_, _)
NamesFrom(S, j) ==
    IF j > N THEN <<>>
    ELSE (IF j \in S THEN <<actions[j].name>> ELSE <<>>) \o NamesFrom(S, j + 1)
AllMasks == 0..(Pow2(N) - 1)
FeasibleMasks == {m \in AllMasks : SubsetCost(MaskSet(m)) <= budget}
BestMasks ==
    LET best == OptProfit(N, budget)
    IN {m \in FeasibleMasks : SubsetProfit(MaskSet(m)) = best}
LowestBestMask == CHOOSE m \in BestMasks : \A m2 \in BestMasks : m <= m2

Valid ==
    /\ budget >= 0
    /\ \A j \in 1..N : actions[j].cost >= 0 /\ actions[j].profit >= 0

EmptySolution == Solution(<<>>, 0, 0)

\* ----------------------------------------------------------------- claims

\* C1: for every catalog (unique names, cost >= 0, profit >= 0), budget >= 0
\* and worker count >= 1, the profit returned by async_brute_force_investment
\* equals the profit returned by optimized_investment.
Thm_C1 ==
    pc = "done" =>
        /\ dp_result.status = "ok"
        /\ bf_result.status = "ok"
        /\ bf_result.profit = dp_result.profit
Wit_C1 ==
    /\ pc = "done"
    /\ num_processes >= 2
    /\ bf_result.profit > 0
    /\ bf_result.profit = dp_result.profit
    /\ Len(dp_result.names) < N

\* C2: the subset returned by async_brute_force_investment is optimal: it is a
\* feasible selection of the catalog, no subset with total cost <= budget has a
\* strictly greater total profit than the returned profit, and the returned
\* profit is the sum of the profits of the returned names.
Thm_C2 ==
    pc = "done" =>
        /\ bf_result.status = "ok"
        /\ IsSelection(bf_result.names)
        /\ SubsetCost(PositionsOf(bf_result.names)) = bf_result.cost
        /\ bf_result.cost <= budget
        /\ bf_result.profit = SubsetProfit(PositionsOf(bf_result.names))
        /\ \A S \in SUBSET (1..N) :
               SubsetCost(S) <= budget => SubsetProfit(S) <= bf_result.profit
Wit_C2 ==
    /\ pc = "done"
    /\ bf_result.status = "ok"
    /\ Len(bf_result.names) >= 1
    /\ \E S \in SUBSET (1..N) :
           SubsetCost(S) > budget /\ SubsetProfit(S) > bf_result.profit

Thm_C4 ==
    /\ pc = "bf_run" =>
          /\ DOMAIN tasks = 0..(num_processes - 1)
          /\ tasks[0].start = 0
          /\ tasks[num_processes - 1].end = Pow2(N)
          /\ \A i \in 0..(num_processes - 1) : tasks[i].start <= tasks[i].end
          /\ \A i \in 0..(num_processes - 2) : tasks[i].end = tasks[i + 1].start
          /\ \A m \in AllMasks :
                Cardinality({i \in 0..(num_processes - 1) :
                                tasks[i].start <= m /\ m < tasks[i].end}) = 1
          /\ \A i \in DOMAIN results :
                results[i].combinations_processed = tasks[i].end - tasks[i].start
    /\ (pc = "bf_reduce" /\ r = num_processes) =>
          total_combinations_processed = Pow2(N)
    /\ pc = "done" =>
          /\ total_combinations_processed = Pow2(N)
          /\ bf_result.status # "assertion"
Wit_C4 ==
    /\ pc = "done"
    /\ num_processes >= 2
    /\ Pow2(N) % num_processes # 0
    /\ total_combinations_processed = Pow2(N)

\* C5 (as stated): an empty catalog or a budget of 0 yields the empty subset,
\* cost 0, profit 0 from both solvers, for every catalog with cost >= 0 and
\* profit >= 0.
Orig_C5 ==
    (pc = "done" /\ (N = 0 \/ budget = 0)) =>
        (dp_result = EmptySolution /\ bf_result = EmptySolution)

\* C5 (amended): an empty catalog, or a budget of 0 with a catalog in which no
\* option has both cost 0 and profit > 0, yields the empty subset, cost 0,
\* profit 0 from both solvers.
NoFreeProfit == \A j \in 1..N : ~(actions[j].cost = 0 /\ actions[j].profit > 0)
Thm_C5 ==
    (pc = "done" /\ (N = 0 \/ (budget = 0 /\ NoFreeProfit))) =>
        (dp_result = EmptySolution /\ bf_result = EmptySolution)
Wit_C5 ==
    /\ pc = "done"
    /\ budget = 0
    /\ NoFreeProfit
    /\ \E j \in 1..N : actions[j].cost = 0
    /\ \E j \in 1..N : actions[j].cost > 0 /\ actions[j].profit > 0
    /\ dp_result = EmptySolution /\ bf_result = EmptySolution

\* C6: the array dp of optimized_investment is non-decreasing in w in every
\* reachable state of the solve, also in the middle of the descending inner
\* loop, and the returned profit is the largest cell.
Thm_C6 ==
    pc \in {"dp", "bf_start"} =>
        /\ \A w \in 0..(budget - 1) : PyGet(dp, w) <= PyGet(dp, w + 1)
        /\ dp_result.status = "ok" =>
               \A w \in 0..budget : PyGet(dp, w) <= dp_result.profit
Wit_C6 ==
    /\ pc = "dp"
    /\ k <= N
    /\ pos > 1
    /\ pos <= Len(InnerRange(budget, actions[k].cost))
    /\ PyGet(dp, budget) > PyGet(dp, budget - 1)
    /\ actions[k].profit > 0

\* C7: when the budget is negative or an option has a negative cost or profit,
\* neither solver returns a Solution, and no dp cell or running best is updated.
NoUpdate ==
    /\ \A i \in 1..Len(dp) : dp[i] = 0
    /\ max_profit = 0
    /\ \A i \in DOMAIN results : results[i].max_profit = 0
CE_C7 ==
    ~Valid =>
        /\ dp_result.status # "ok"
        /\ bf_result.status # "ok"
        /\ NoUpdate

\* C8: whatever the order in which the chunk evaluations complete, the parallel
\* brute force returns the feasible subset of lowest mask among those of
\* maximal profit, with its cost and profit (the empty subset, 0, 0 when no
\* feasible subset has profit > 0), as one enumeration of masks 0..2^N-1 does.
Thm_C8 ==
    pc = "done" =>
        LET first == MaskSet(LowestBestMask)
        IN bf_result = Solution(NamesFrom(first, 1), SubsetCost(first),
                                SubsetProfit(first))
Wit_C8 ==
    /\ pc = "done"
    /\ bf_result.profit > 0
    /\ \E m1, m2 \in BestMasks :
          /\ m1 # m2
          /\ \E i \in 0..(num_processes - 1) :
                /\ tasks[i].start <= m1 /\ m1 < tasks[i].end
                /\ ~(tasks[i].start <= m2 /\ m2 < tasks[i].end)

\* C9: each time the outer loop has fully processed the first k options, dp[w]
\* is the maximum total profit over the subsets of those options of total cost
\* <= w, for every w in 0..B; the returned profit is the optimum of the catalog.
Thm_C9 ==
    /\ (pc = "dp" /\ pos = 1) =>
          \A w \in 0..budget : PyGet(dp, w) = OptProfit(k - 1, w)
    /\ pc = "bf_start" =>
          dp_result.status = "ok" /\ dp_result.profit = OptProfit(N, budget)
Wit_C9 ==
    /\ pc = "dp"
    /\ pos = 1
    /\ k = N + 1
    /\ N >= 2
    /\ PyGet(dp, budget) > actions[1].profit
    /\ PyGet(dp, budget) > actions[2].profit
    /\ PyGet(dp, 0) < PyGet(dp, budget)

\* C10: in every reachable state of optimized_investment and for every w in
\* 0..B, included[w] holds each option at most once, its profits sum to dp[w]
\* and its costs sum to at most w; the returned selection uses no option twice
\* and its profits sum to the returned profit.
Thm_C10 ==
    pc \in {"dp", "bf_start"} =>
        /\ \A w \in 0..budget :
              LET chosen == PositionsOf(PyGet(included, w))
              IN /\ IsSelection(PyGet(included, w))
                 /\ SubsetProfit(chosen) = PyGet(dp, w)
                 /\ SubsetCost(chosen) <= w
        /\ pc = "bf_start" =>
              LET chosen == PositionsOf(dp_result.names)
              IN /\ dp_result.status = "ok"
                 /\ IsSelection(dp_result.names)
                 /\ SubsetProfit(chosen) = dp_result.profit
                 /\ SubsetCost(chosen) = dp_result.cost
Wit_C10 ==
    /\ pc = "dp"
    /\ k <= N
    /\ pos > 1
    /\ \E w \in 0..budget : Len(PyGet(included, w)) >= 2

====
